---- MODULE Spec2Model ----
(***************************************************************************)
(* Model of src/main.cpp: the BGR -> packed YUYV (YUY2) encoder            *)
(* GetRawYUYVData, and main's use of its buffer: the CV_8UC2 view, the     *)
(* even/odd region-of-interest crops and their reinterpretation.           *)
(*                                                                         *)
(* Three specifications share the variables:                               *)
(*   Spec      the encoder on every small image over Palette, followed by  *)
(*             the view / crop / reinterpretation steps for any rectangle; *)
(*   SpecPair  the encoder alone on every 2x1 image whose channels range   *)
(*             over Levels (the numerical behaviour of one pixel pair);    *)
(*   SpecMain  main's control flow on image sizes (pixel data abstracted:  *)
(*             the images are thousands of pixels wide).                   *)
(***************************************************************************)
EXTENDS Integers, FiniteSets, Sequences, TLC

VARIABLES
    bgr,      \* the source image: [cols, rows, px], px[<<y, x>>] = <<b, g, r>>
    W, H,     \* GetRawYUYVData's locals
    out_w, out_h,
    buffer,   \* function 0..n-1 -> byte
    idx, x, y,
    loc,      \* the loop body's locals for the pair processed last
    reads,    \* every (y, x) passed to bgr.at<>() so far
    pc,
    src,      \* main: the view built over rawData
    roi,      \* the rectangle applied last
    crop,     \* the sub-view src(roi)
    gray,     \* result of COLOR_YUV2GRAY_YUY2 on the crop
    color,    \* the crop's rows read as 4-byte (Y, U, Y, V) groups
    files     \* main: the images written so far

vars == <<bgr, W, H, out_w, out_h, buffer, idx, x, y, loc, reads, pc,
          src, roi, crop, gray, color, files>>

encVars  == <<W, H, out_w, out_h, buffer, idx, x, y, loc, reads>>
viewVars == <<src, roi, crop, gray, color, files>>

----------------------------------------------------------------------------
(* Bounds and input sets *)

\* an image of Spec has at most MaxPixels pixels (cols * rows <= MaxPixels)
MaxPixels == 8

\* <<b, g, r>> triples (cv::Vec3b of a BGR image): pure blue and pure red
Palette == { <<255, 0, 0>>, <<0, 0, 255>> }

\* channel values of SpecPair's pixels
Levels == {0, 1, 64, 127, 128, 200, 255}

\* image sides tried by SpecMain (0 x 0 stands for the unreadable file)
Sizes == {1, 2099, 2100, 2500, 3000, 3001, 3002, 3003, 4000}

----------------------------------------------------------------------------
(* Integer helpers, as C++ computes them *)

\* v >> 8 on a signed int: arithmetic shift, i.e. floor(v / 256)
Sar8(v) == v \div 256

\* static_cast<uint8_t>(v) inside the lambdas: the low 8 bits
\* (SatCast: the faulty variant that saturates, as cv::saturate_cast would)
SatCast(v) == IF v < 0 THEN 0 ELSE IF v > 255 THEN 255 ELSE v
static_cast_uint8(v) == v % 256

\* the implicit int -> uint8_t conversion of `uint8_t Y0 = ...`
\* (SatStore: the faulty variant that saturates)
SatStore(v) == IF v < 0 THEN 0 ELSE IF v > 255 THEN 255 ELSE v
StoreU8(v) == v % 256

\* the three lambdas; each returns an int (uint8_t promoted, plus the offset)
RGB2Y(r, g, b) == static_cast_uint8(Sar8(66 * r + 129 * g + 25 * b + 128)) + 16
RGB2U(r, g, b) == static_cast_uint8(Sar8(-38 * r - 74 * g + 112 * b + 128)) + 128
RGB2V(r, g, b) == static_cast_uint8(Sar8(112 * r - 94 * g - 18 * b + 128)) + 128

\* p[2], p[1], p[0] of a Vec3b (tuples are 1-based)
Red(p)   == p[3]
Green(p) == p[2]
Blue(p)  == p[1]

\* uint8_t Y0 = RGB2Y(p0[2], p0[1], p0[0]); and the like
\* (Y1Swapped: the faulty variant that passes p1's channels in B, G, R order)
Y0Of(p0) == StoreU8(RGB2Y(Red(p0), Green(p0), Blue(p0)))
U0Of(p0) == StoreU8(RGB2U(Red(p0), Green(p0), Blue(p0)))
V0Of(p0) == StoreU8(RGB2V(Red(p0), Green(p0), Blue(p0)))
Y1Swapped(p1) == StoreU8(RGB2Y(Blue(p1), Green(p1), Red(p1)))
Y1Of(p1) == StoreU8(RGB2Y(Red(p1), Green(p1), Blue(p1)))
U1Of(p1) == StoreU8(RGB2U(Red(p1), Green(p1), Blue(p1)))
V1Of(p1) == StoreU8(RGB2V(Red(p1), Green(p1), Blue(p1)))

\* uint8_t U = (U0 + U1) / 2;  the operands are promoted to int
\* (AvgWrapped: the faulty variant whose sum is formed in 8 bits)
AvgWrapped(a, b) == StoreU8(((a + b) % 256) \div 2)
AvgChroma(a, b) == StoreU8((a + b) \div 2)

\* if (W % 2 != 0) W--;
\* (EvenWidthKept: the faulty variant without the truncation)
EvenWidthKept(cols) == cols
EvenWidth(cols) == IF cols % 2 # 0 THEN cols - 1 ELSE cols

\* std::vector<uint8_t> buffer(W * H * 2);
\* (BufferSizeOnePerPixel: the faulty variant with one byte per pixel)
BufferSizeOnePerPixel(w, h) == w * h
BufferSize(w, h) == w * h * 2

\* buffer[idx++] = Y0; = U; = Y1; = V;
\* (GroupPlanar, GroupUYVY: faulty variants with another byte order)
GroupPlanar(Y0, U, Y1, V) == <<Y0, Y1, U, V>>
GroupUYVY(Y0, U, Y1, V) == <<U, Y0, V, Y1>>
Group(Y0, U, Y1, V) == <<Y0, U, Y1, V>>

\* bgr.at<cv::Vec3b>(r, c): the pixel, or (no bounds check in a release
\* build) whatever lies there when (r, c) is outside the image
At(r, c) ==
    IF r >= 0 /\ r < bgr.rows /\ c >= 0 /\ c < bgr.cols
    THEN { bgr.px[<<r, c>>] }
    ELSE Palette

BufLen == Cardinality(DOMAIN buffer)

NoLoc == [at |-> <<-1, -1>>, p0 |-> <<0, 0, 0>>, p1 |-> <<0, 0, 0>>,
          rY0 |-> 0, rU0 |-> 0, rV0 |-> 0, rY1 |-> 0, rU1 |-> 0, rV1 |-> 0,
          Y0 |-> 0, U0 |-> 0, V0 |-> 0, Y1 |-> 0, U1 |-> 0, V1 |-> 0,
          U |-> 0, V |-> 0]

NoRect == [x |-> 0, y |-> 0, width |-> 0, height |-> 0]
NoMat  == [rows |-> 0, cols |-> 0, esz |-> 0, off |-> 0, step |-> 0]
NoData == [e \in {} |-> 0]

----------------------------------------------------------------------------
(* Initial states *)

Image(cols, rows, px) == [cols |-> cols, rows |-> rows, px |-> px]

InitRest ==
    /\ W = 0 /\ H = 0 /\ out_w = 0 /\ out_h = 0
    /\ buffer = NoData
    /\ idx = 0 /\ x = 0 /\ y = 0
    /\ loc = NoLoc
    /\ reads = {}
    /\ src = NoMat /\ roi = NoRect /\ crop = NoMat
    /\ gray = NoData /\ color = NoData
    /\ files = {}

Init ==
    /\ \E cols \in 0..MaxPixels, rows \in 0..MaxPixels :
         /\ cols * rows <= MaxPixels
         /\ \E px \in [(0..rows-1) \X (0..cols-1) -> Palette] :
              bgr = Image(cols, rows, px)
    /\ pc = "call"
    /\ InitRest

InitPair ==
    /\ \E px \in [{0} \X (0..1) -> Levels \X Levels \X Levels] :
         bgr = Image(2, 1, px)
    /\ pc = "call"
    /\ InitRest

----------------------------------------------------------------------------
(* GetRawYUYVData *)

\* lines 9-21: sizes, truncation to an even width, allocation
Enter ==
    /\ pc = "call"
    /\ W' = EvenWidth(bgr.cols)
    /\ H' = bgr.rows
    /\ out_w' = W'
    /\ out_h' = H'
    /\ buffer' = [i \in 0..(BufferSize(W', H') - 1) |-> 0]
    /\ idx' = 0 /\ y' = 0 /\ x' = 0
    /\ pc' = "loop"
    /\ UNCHANGED <<bgr, loc, reads>>
    /\ UNCHANGED viewVars

\* lines 23-50: one iteration of the inner loop
PairStep ==
    /\ pc = "loop" /\ y < H /\ x < W
    /\ \E p0 \in At(y, x), p1 \in At(y, x + 1) :
         LET rY0 == RGB2Y(Red(p0), Green(p0), Blue(p0))
             rU0 == RGB2U(Red(p0), Green(p0), Blue(p0))
             rV0 == RGB2V(Red(p0), Green(p0), Blue(p0))
             rY1 == RGB2Y(Red(p1), Green(p1), Blue(p1))
             rU1 == RGB2U(Red(p1), Green(p1), Blue(p1))
             rV1 == RGB2V(Red(p1), Green(p1), Blue(p1))
             Y0 == Y0Of(p0)
             U0 == U0Of(p0)
             V0 == V0Of(p0)
             Y1 == Y1Of(p1)
             U1 == U1Of(p1)
             V1 == V1Of(p1)
             U  == AvgChroma(U0, U1)
             V  == AvgChroma(V0, V1)
             g  == Group(Y0, U, Y1, V)
         IN  /\ loc' = [at |-> <<y, x>>, p0 |-> p0, p1 |-> p1,
                        rY0 |-> rY0, rU0 |-> rU0, rV0 |-> rV0,
                        rY1 |-> rY1, rU1 |-> rU1, rV1 |-> rV1,
                        Y0 |-> Y0, U0 |-> U0, V0 |-> V0,
                        Y1 |-> Y1, U1 |-> U1, V1 |-> V1,
                        U |-> U, V |-> V]
             /\ buffer' = [i \in DOMAIN buffer |->
                             IF i >= idx /\ i < idx + 4
                             THEN g[i - idx + 1] ELSE buffer[i]]
    /\ reads' = reads \cup { <<y, x>>, <<y, x + 1>> }
    /\ idx' = idx + 4
    /\ x' = x + 2
    /\ UNCHANGED <<bgr, W, H, out_w, out_h, y, pc>>
    /\ UNCHANGED viewVars

\* line 23 false, line 22 ++y: the row is finished
RowEnd ==
    /\ pc = "loop" /\ y < H /\ x >= W
    /\ y' = y + 1
    /\ x' = 0
    /\ UNCHANGED <<bgr, W, H, out_w, out_h, buffer, idx, loc, reads, pc>>
    /\ UNCHANGED viewVars

\* line 22 false, line 52
Return ==
    /\ pc = "loop" /\ y >= H
    /\ pc' = "done"
    /\ UNCHANGED <<bgr, W, H, out_w, out_h, buffer, idx, x, y, loc, reads>>
    /\ UNCHANGED viewVars

NextEncoder == Enter \/ PairStep \/ RowEnd \/ Return

SpecPair == InitPair /\ [][NextEncoder]_vars

----------------------------------------------------------------------------
(* The view over the buffer, its crops and their reinterpretation.        *)
(* cv::Mat, operator()(Rect) and cvtColor belong to the image library;    *)
(* they are modelled by what main's calls and comments rely on: a view is *)
(* (rows, cols, element size, byte offset of its first element, row       *)
(* stride), a crop shares the parent's data and stride, and the library   *)
(* rejects a rectangle that is not inside the parent.                     *)

\* cv::Mat src(h, w, CV_8UC2, rawData.data());
\* (MatOneByte: the faulty variant that declares one byte per element)
MatOneByte(rows, cols) ==
    [rows |-> rows, cols |-> cols, esz |-> 1, off |-> 0, step |-> cols]
Mat8UC2(rows, cols) ==
    [rows |-> rows, cols |-> cols, esz |-> 2, off |-> 0, step |-> 2 * cols]

\* cv::Mat wrong_format_mat(h, w, CV_8UC1, rawData.data());
Mat8UC1(rows, cols) ==
    [rows |-> rows, cols |-> cols, esz |-> 1, off |-> 0, step |-> cols]

\* the library's precondition of m(r)
Inside(r, m) ==
    /\ 0 <= r.x /\ 0 <= r.width  /\ r.x + r.width  <= m.cols
    /\ 0 <= r.y /\ 0 <= r.height /\ r.y + r.height <= m.rows

\* m(r): same data, same stride, first element moved to (r.y, r.x)
SubMat(m, r) ==
    [rows |-> r.height, cols |-> r.width, esz |-> m.esz,
     off |-> m.off + r.y * m.step + r.x * m.esz, step |-> m.step]

\* byte offset, in the buffer, of element (row j, column i) of a view
ElemOffset(m, j, i) == m.off + j * m.step + i * m.esz

\* COLOR_YUV2GRAY_YUY2: the first component of every 2-byte element
ToGray(m) ==
    [e \in (0..m.rows-1) \X (0..m.cols-1) |->
        buffer[ElemOffset(m, e[1], e[2])]]

\* COLOR_YUV2BGR_YUY2 reads each row of the view as consecutive 4-byte
\* groups (Y, U, Y, V); group k of row j covers elements 2k and 2k+1
Groups(m) ==
    [e \in (0..m.rows-1) \X (0..(m.cols \div 2)-1) |->
        LET o == ElemOffset(m, e[1], 2 * e[2])
        IN  <<buffer[o], buffer[o + 1], buffer[o + 2], buffer[o + 3]>>]

\* line 87
WrapSrc ==
    /\ pc = "done"
    /\ src' = Mat8UC2(out_h, out_w)
    /\ pc' = "wrapped"
    /\ UNCHANGED <<bgr, roi, crop, gray, color, files>>
    /\ UNCHANGED encVars

\* lines 98 / 114 for an arbitrary rectangle: src(r), or cv::Exception
Crop ==
    /\ pc = "wrapped"
    /\ \E rx \in 0..src.cols, ry \in 0..src.rows :
       \E rw \in 1..(src.cols - rx + 1), rh \in 1..(src.rows - ry + 1) :
          LET r == [x |-> rx, y |-> ry, width |-> rw, height |-> rh]
          IN  /\ roi' = r
              /\ IF Inside(r, src)
                 THEN crop' = SubMat(src, r) /\ pc' = "cropped"
                 ELSE crop' = crop /\ pc' = "exception"
    /\ UNCHANGED <<bgr, src, gray, color, files>>
    /\ UNCHANGED encVars

\* lines 102 / 122
CvtGray ==
    /\ pc = "cropped"
    /\ gray' = ToGray(crop)
    /\ pc' = "gray"
    /\ UNCHANGED <<bgr, src, roi, crop, color, files>>
    /\ UNCHANGED encVars

\* line 139
CvtColor ==
    /\ pc = "gray"
    /\ color' = Groups(crop)
    /\ pc' = "color"
    /\ UNCHANGED <<bgr, src, roi, crop, gray, files>>
    /\ UNCHANGED encVars

Next == NextEncoder \/ WrapSrc \/ Crop \/ CvtGray \/ CvtColor

Spec == Init /\ [][Next]_vars

----------------------------------------------------------------------------
(* main, on image sizes.  The pixel data of a 2500 x 2500 image is not    *)
(* enumerated: the encoder's call is summarised by the sizes it returns,   *)
(* computed by the same EvenWidth as Enter.                                *)

\* line 91 and line 92
roi_odd  == [x |-> 2001, y |-> 2001, width |-> 1001, height |-> 1001]
roi_even == [x |-> 2000, y |-> 2000, width |-> 1000, height |-> 1000]

\* line 64: the file is unreadable (an empty Mat) or holds some image
InitMain ==
    /\ \/ bgr = Image(0, 0, NoData)
       \/ \E cols \in Sizes, rows \in Sizes : bgr = Image(cols, rows, NoData)
    /\ pc = "imread"
    /\ InitRest

\* lines 65-73: an empty image is replaced by a synthesized 3000 x 3000 one
LoadOrSynthesize ==
    /\ pc = "imread"
    /\ bgr' = IF bgr.cols = 0 \/ bgr.rows = 0
              THEN Image(3000, 3000, NoData) ELSE bgr
    /\ pc' = "guard"
    /\ UNCHANGED encVars
    /\ UNCHANGED viewVars

\* lines 76-78: the size guard
SizeGuard ==
    /\ pc = "guard"
    /\ bgr' = IF bgr.cols < 2100 \/ bgr.rows < 2100
              THEN Image(2500, 2500, NoData) ELSE bgr
    /\ pc' = "encode"
    /\ UNCHANGED encVars
    /\ UNCHANGED viewVars

\* lines 82-83: rawData = GetRawYUYVData(bgr, w, h), sizes only
CallEncoder ==
    /\ pc = "encode"
    /\ W' = EvenWidth(bgr.cols)
    /\ H' = bgr.rows
    /\ out_w' = W'
    /\ out_h' = H'
    /\ pc' = "done"
    /\ UNCHANGED <<bgr, buffer, idx, x, y, loc, reads>>
    /\ UNCHANGED viewVars

\* line 98: crop_even = src(roi_even); a cv::Exception here is not caught
CropEven ==
    /\ pc = "wrapped"
    /\ roi' = roi_even
    /\ IF Inside(roi_even, src)
       THEN crop' = SubMat(src, roi_even) /\ pc' = "test1"
       ELSE crop' = crop /\ pc' = "terminate"
    /\ UNCHANGED <<bgr, src, gray, color, files>>
    /\ UNCHANGED encVars

\* lines 102-105
GrayEven ==
    /\ pc = "test1"
    /\ files' = files \cup {"result_even_crop.jpg"}
    /\ pc' = "test2"
    /\ UNCHANGED <<bgr, src, roi, crop, gray, color>>
    /\ UNCHANGED encVars

\* line 114: crop_odd = src(roi_odd), outside the try block
CropOdd ==
    /\ pc = "test2"
    /\ roi' = roi_odd
    /\ IF Inside(roi_odd, src)
       THEN crop' = SubMat(src, roi_odd) /\ pc' = "odd"
       ELSE crop' = crop /\ pc' = "terminate"
    /\ UNCHANGED <<bgr, src, gray, color, files>>
    /\ UNCHANGED encVars

\* lines 121-131
GrayOdd ==
    /\ pc = "odd"
    /\ files' = files \cup {"result_odd_crop.jpg"}
    /\ pc' = "extra"
    /\ UNCHANGED <<bgr, src, roi, crop, gray, color>>
    /\ UNCHANGED encVars

\* lines 137-140
ColorOdd ==
    /\ pc = "extra"
    /\ files' = files \cup {"result_odd_crop_wrong_color.jpg"}
    /\ pc' = "test3"
    /\ UNCHANGED <<bgr, src, roi, crop, gray, color>>
    /\ UNCHANGED encVars

\* lines 153-168: the same bytes viewed as CV_8UC1, cropped by roi_odd
WrongFormat ==
    /\ pc = "test3"
    /\ roi' = roi_odd
    /\ IF Inside(roi_odd, Mat8UC1(out_h, out_w))
       THEN /\ crop' = SubMat(Mat8UC1(out_h, out_w), roi_odd)
            /\ files' = files \cup {"result_wrong_format_garbage.jpg"}
            /\ pc' = "exit"
       ELSE crop' = crop /\ files' = files /\ pc' = "terminate"
    /\ UNCHANGED <<bgr, src, gray, color>>
    /\ UNCHANGED encVars

NextMain ==
    \/ LoadOrSynthesize \/ SizeGuard \/ CallEncoder \/ WrapSrc
    \/ CropEven \/ GrayEven \/ CropOdd \/ GrayOdd \/ ColorOdd \/ WrongFormat

SpecMain == InitMain /\ [][NextMain]_vars

----------------------------------------------------------------------------
(* Vocabulary of the properties, defined without the encoder's operators   *)

\* floor(v / 256): the remainder 0..255 taken off, then an exact division
Floor256(v) == (v - (v % 256)) \div 256
\* v modulo 256, in 0..255
Low8(v)     == v - 256 * Floor256(v)
\* floor(n / 2)
Half(n)     == (n - (n % 2)) \div 2

\* the weighted sums of a <<b, g, r>> pixel, rounding constant included
SumY(p) == 66 * p[3] + 129 * p[2] + 25 * p[1] + 128
SumU(p) == -38 * p[3] - 74 * p[2] + 112 * p[1] + 128
SumV(p) == 112 * p[3] - 94 * p[2] - 18 * p[1] + 128

\* the exact integers of the conversion, with no 8-bit truncation at all
ExactY(p) == Floor256(SumY(p)) + 16
ExactU(p) == Floor256(SumU(p)) + 128
ExactV(p) == Floor256(SumV(p)) + 128

Pixel(px, py) == bgr.px[<<py, px>>]
\* luma of source pixel (px, py); averaged chroma of the pair (px, px + 1)
LumaAt(px, py) == ExactY(Pixel(px, py))
UAvgAt(px, py) == Half(ExactU(Pixel(px, py)) + ExactU(Pixel(px + 1, py)))
VAvgAt(px, py) == Half(ExactV(Pixel(px, py)) + ExactV(Pixel(px + 1, py)))

EvenColumns == { c \in 0..(out_w - 1) : c % 2 = 0 }
Encoding    == pc \in {"loop", "done", "wrapped", "cropped", "gray", "color", "exception"}
PairDone    == loc.at # <<-1, -1>>
Uniform     == \A a, b \in DOMAIN bgr.px : bgr.px[a] = bgr.px[b]
\* the 4-byte group at byte offset o of the buffer
GroupAt(o)  == <<buffer[o], buffer[o + 1], buffer[o + 2], buffer[o + 3]>>

----------------------------------------------------------------------------
(* Properties *)

\* C1: once GetRawYUYVData has set its outputs, out_w is the width when the
\* width is even and the width minus one when it is odd, out_h is the height,
\* the buffer holds exactly out_w * H * 2 bytes, a multiple of 4, and a width
\* of 1 gives out_w = 0 and an empty buffer whatever the height.
C1_Sizes ==
    Encoding =>
        /\ out_w = (IF bgr.cols % 2 = 0 THEN bgr.cols ELSE bgr.cols - 1)
        /\ out_h = bgr.rows
        /\ BufLen = out_w * bgr.rows * 2
        /\ BufLen % 4 = 0
        /\ (bgr.cols = 1 => out_w = 0 /\ BufLen = 0)

C1_Witness ==
    /\ pc = "done" /\ bgr.cols = 3 /\ bgr.rows = 2
    /\ out_w = 2 /\ BufLen = 8

\* C2: the group of row y and even column x lies at byte offsets
\* 2*(y*out_w + x) .. +3 and is (Y(x,y), U_avg, Y(x+1,y), V_avg); the write
\* index always stands at the offset of the next group in row-major order,
\* every group below it already holds its final bytes, and at the return the
\* index equals the buffer length.
C2_Layout ==
    Encoding =>
        /\ (pc = "loop" /\ y < H => idx = 2 * (y * out_w + x))
        /\ (pc # "loop" => idx = BufLen)
        /\ \A gy \in 0..(H - 1), gx \in EvenColumns :
              LET o == 2 * (gy * out_w + gx)
              IN  o < idx =>
                    GroupAt(o) = <<LumaAt(gx, gy), UAvgAt(gx, gy),
                                   LumaAt(gx + 1, gy), VAvgAt(gx, gy)>>

C2_Witness ==
    /\ pc = "done" /\ out_w = 4 /\ H = 2 /\ idx = 16
    /\ Cardinality({ GroupAt(4 * g) : g \in 0..3 }) = 4

\* C3: the value each lambda returns is (low 8 bits of floor(sum / 256)) plus
\* the offset, and the stored byte is the low 8 bits of that value: the
\* truncations wrap modulo 256 and never saturate.
C3_Order ==
    PairDone =>
        /\ loc.rY0 = Low8(Floor256(SumY(loc.p0))) + 16
        /\ loc.rU0 = Low8(Floor256(SumU(loc.p0))) + 128
        /\ loc.rV0 = Low8(Floor256(SumV(loc.p0))) + 128
        /\ loc.rY1 = Low8(Floor256(SumY(loc.p1))) + 16
        /\ loc.rU1 = Low8(Floor256(SumU(loc.p1))) + 128
        /\ loc.rV1 = Low8(Floor256(SumV(loc.p1))) + 128
        /\ loc.Y0 = Low8(loc.rY0) /\ loc.U0 = Low8(loc.rU0) /\ loc.V0 = Low8(loc.rV0)
        /\ loc.Y1 = Low8(loc.rY1) /\ loc.U1 = Low8(loc.rU1) /\ loc.V1 = Low8(loc.rV1)

\* a pixel whose shifted U sum is negative: the cast wraps it to 144..255,
\* the offset carries it past 255 and the store wraps it again
C3_Witness ==
    /\ PairDone
    /\ Floor256(SumU(loc.p0)) < 0
    /\ loc.rU0 > 255
    /\ loc.U0 = loc.rU0 - 256
    /\ Floor256(SumV(loc.p1)) < 0
    /\ loc.rV1 > 255

\* C4: the chroma bytes of the group written last are floor((U0 + U1) / 2)
\* and floor((V0 + V1) / 2) of the two pixels' stored 8-bit values, the sum
\* taken in full (not modulo 256), U and V each from its own pair of values.
C4_Average ==
    PairDone =>
        /\ loc.U = Half(loc.U0 + loc.U1)
        /\ loc.V = Half(loc.V0 + loc.V1)
        /\ buffer[idx - 3] = Half(loc.U0 + loc.U1)
        /\ buffer[idx - 1] = Half(loc.V0 + loc.V1)

C4_Witness ==
    /\ PairDone
    /\ loc.U0 + loc.U1 >= 256 /\ (loc.U0 + loc.U1) % 2 = 1
    /\ loc.V0 + loc.V1 < 256 /\ (loc.V0 + loc.V1) % 2 = 1
    /\ buffer[idx - 3] # buffer[idx - 1]

\* C5: every pixel read is inside the image, each pair's second column
\* included, and the last column of an odd-width image is never read.
C5_ReadsInBounds ==
    /\ \A r \in reads :
          /\ 0 <= r[1] /\ r[1] < bgr.rows
          /\ 0 <= r[2] /\ r[2] < bgr.cols
          /\ (bgr.cols % 2 = 1 => r[2] # bgr.cols - 1)
    /\ (PairDone => loc.at[2] >= 0 /\ loc.at[2] + 1 < bgr.cols)

C5_Witness ==
    /\ pc = "done" /\ bgr.cols = 3 /\ bgr.rows = 2
    /\ reads = (0..1) \X (0..1)

\* C6: in the encoding of a uniform image every group emitted so far equals
\* the first group, and the two luma bytes of each group are equal.
C6_Uniform ==
    (Encoding /\ Uniform) =>
        \A g \in 0..(BufLen \div 4 - 1) :
            4 * g < idx =>
                /\ GroupAt(4 * g) = GroupAt(0)
                /\ buffer[4 * g] = buffer[4 * g + 2]

C6_Witness ==
    /\ pc = "done" /\ Uniform /\ out_w = 4 /\ H = 2 /\ idx = 16
    /\ buffer[0] # buffer[1] /\ buffer[1] # buffer[3]

\* C7: when main reaches the crops (the view src is built), roi_even and
\* roi_odd lie entirely inside src.
C7_CropsInside ==
    pc = "wrapped" => Inside(roi_even, src) /\ Inside(roi_odd, src)

\* C8: element (j, i) of a crop at (x0, y0) starts at buffer byte
\* 2*((y0 + j)*w + x0 + i), for odd and even x0 alike, and the grayscale
\* image made of the first byte of every element is the luma of the source
\* pixels (x0 + i, y0 + j).
C8_GrayOfCrop ==
    /\ pc \in {"cropped", "gray", "color"} =>
          \A j \in 0..(crop.rows - 1), i \in 0..(crop.cols - 1) :
              ElemOffset(crop, j, i) = 2 * ((roi.y + j) * src.cols + roi.x + i)
    /\ pc \in {"gray", "color"} =>
          /\ DOMAIN gray = (0..(roi.height - 1)) \X (0..(roi.width - 1))
          /\ \A j \in 0..(crop.rows - 1), i \in 0..(crop.cols - 1) :
                gray[<<j, i>>] = LumaAt(roi.x + i, roi.y + j)

C8_Witness ==
    /\ pc = "gray" /\ roi.x % 2 = 1 /\ roi.y = 1
    /\ roi.width = 3 /\ roi.height = 1
    /\ gray[<<0, 0>>] # gray[<<0, 1>>]

\* C9: in a crop at an odd column x0 the first element is (Y(x0), V_avg of
\* the pair (x0-1, x0)) and group k of every row is (Y(x0+2k), V_avg of the
\* pair before, Y(x0+2k+1), U_avg of the pair after): V in the U position, U
\* in the V position.  In a crop at an even column every group is the group
\* the encoder emitted for that pair.
C9_Phase ==
    pc = "color" =>
        /\ roi.x % 2 = 1 =>
              /\ <<buffer[crop.off], buffer[crop.off + 1]>>
                    = <<LumaAt(roi.x, roi.y), VAvgAt(roi.x - 1, roi.y)>>
              /\ \A j \in 0..(crop.rows - 1), k \in 0..(crop.cols \div 2 - 1) :
                    LET cx == roi.x + 2 * k
                        cy == roi.y + j
                    IN  color[<<j, k>>] =
                          <<LumaAt(cx, cy), VAvgAt(cx - 1, cy),
                            LumaAt(cx + 1, cy), UAvgAt(cx + 1, cy)>>
        /\ roi.x % 2 = 0 =>
              \A j \in 0..(crop.rows - 1), k \in 0..(crop.cols \div 2 - 1) :
                    LET cx == roi.x + 2 * k
                        cy == roi.y + j
                    IN  /\ color[<<j, k>>] = GroupAt(2 * (cy * out_w + cx))
                        /\ color[<<j, k>>] =
                              <<LumaAt(cx, cy), UAvgAt(cx, cy),
                                LumaAt(cx + 1, cy), VAvgAt(cx, cy)>>

\* an odd crop two groups wide and two rows high of an image whose chroma
\* tells the positions apart
C9_Witness ==
    /\ pc = "color" /\ roi.x = 1 /\ roi.y = 0
    /\ roi.width = 2 /\ roi.height = 2 /\ out_w = 4
    /\ color[<<1, 0>>][2] = VAvgAt(0, 1)
    /\ color[<<1, 0>>][4] = UAvgAt(2, 1)
    /\ VAvgAt(0, 1) # UAvgAt(0, 1)
    /\ UAvgAt(2, 1) # VAvgAt(2, 1)

\* C10: the stored Y, U, V of both pixels are the exact integers of the
\* conversion, Y within 16..235 and U, V within 16..240, and the averaged
\* chroma bytes written to the buffer lie within 16..240.
C10_Exact ==
    PairDone =>
        /\ loc.Y0 = ExactY(loc.p0) /\ loc.Y1 = ExactY(loc.p1)
        /\ loc.U0 = ExactU(loc.p0) /\ loc.U1 = ExactU(loc.p1)
        /\ loc.V0 = ExactV(loc.p0) /\ loc.V1 = ExactV(loc.p1)
        /\ {loc.Y0, loc.Y1} \subseteq 16..235
        /\ {loc.U0, loc.U1, loc.V0, loc.V1} \subseteq 16..240
        /\ {buffer[idx - 3], buffer[idx - 1]} \subseteq 16..240
        /\ buffer[idx - 4] = ExactY(loc.p0) /\ buffer[idx - 2] = ExactY(loc.p1)

\* both chroma extremes are met, each through a cast and a store that wrap
C10_Witness ==
    /\ pc = "done" /\ PairDone
    /\ loc.U0 = 16 /\ loc.rU0 > 255
    /\ loc.U1 = 240
    /\ Floor256(SumV(loc.p1)) < 0 /\ loc.rV1 > 255

====
